---------------------------- MODULE Spec2Model ----------------------------
(***************************************************************************)
(* State-machine model of SDKeyStore (src/src/keystore/sdcard.py): the     *)
(* encrypted storage of a recovery phrase on internal flash or on an SD    *)
(* card, and the interactive storage_menu loop that drives save, load and  *)
(* delete.                                                                 *)
(*                                                                         *)
(* Strings are sequences of tokens.  The tokens are chosen prefix-free and *)
(* with distinct first characters, so the token-wise operations below      *)
(* (startswith, replace, slicing, sorting) agree with the character-wise   *)
(* operations of the code on the concatenated strings.                     *)
(*                                                                         *)
(* One action is one run of the coroutine from a suspension point (an      *)
(* awaited screen) to the next one.  save_mnemonic is cut once more,       *)
(* between the write and the read-back, because the card can be pulled or  *)
(* the medium can fail at any moment.                                      *)
(***************************************************************************)
EXTENDS Integers, Sequences, FiniteSets, TLC

VARIABLES
    pc,             \* position of storage_menu (the awaited screen, or its end)
    op,             \* record operation in progress: "save", "load", "delete", "none"
    filename,       \* save_mnemonic: the name entered by the user
    path,           \* the root chosen in get_keypath
    enable,         \* get_keypath: enable_flash / enable_sd of the shown menu
    buttons,        \* select_file: the shown list of <<file name, display name>>
    alert,          \* the Alert on screen
    error,          \* the exception that left storage_menu
    ret,            \* the record operation that ended in the last step, and how
    input,          \* the screen answered in the last step, and the answer
    files,          \* files[root]: file name -> blob
    sd_present,     \* platform.is_sd_present()
    mounted,        \* mount state of the SD card
    locked,         \* self.is_locked
    mnemonic,       \* self.mnemonic
    mountViolation, \* a mount while mounted or an unmount while unmounted happened
    key_saved,      \* what is_key_saved answered last, after storage_menu returned
    prefix_calls    \* the calls of fileprefix made on keystores of any device

vars == <<pc, op, filename, path, enable, buttons, alert, error, ret, input,
          files, sd_present, mounted, locked, mnemonic, mountViolation,
          key_saved, prefix_calls>>

-----------------------------------------------------------------------------
(* Values *)

None == "None"

flashpath == "flash"

sdpath == "sd"

Roots == {flashpath, sdpath}

\* the secret of this device and the secret of another device sharing the card
secret == "s1"

otherSecret == "s2"

\* a third device, whose truncated hash is the one of the second
thirdSecret == "s3"

Secrets == {secret, otherSecret, thirdSecret}

\* the encryption key of this device, and a key of another device
enc_secret == "k1"

otherKey == "k2"

Mnemonics == {"m1", "m2"}

\* names the user can type in get_input ("" is <<>>); the last one contains
\* the prefix of the flash root
Names == {<<>>, <<"a">>, <<"reckless">>}

\* order of the tokens as strings (by their first character)
TokOrd == [t \in {".", "12ab", "34cd", "a", "b", "reckless", "specterdiy"} |->
            CASE t = "." -> 0
              [] t = "12ab" -> 1
              [] t = "34cd" -> 2
              [] t = "a" -> 3
              [] t = "b" -> 4
              [] t = "reckless" -> 5
              [] t = "specterdiy" -> 6]

-----------------------------------------------------------------------------
(* Strings *)

\* str.startswith
StartsWith(s, p) == Len(s) >= Len(p) /\ SubSeq(s, 1, Len(p)) = p

\* str.replace(p, ""): every occurrence of p is removed, left to right
RECURSIVE Replace(_, _)
Replace(s, p) ==
    IF s = <<>> THEN <<>>
    ELSE IF StartsWith(s, p) THEN Replace(SubSeq(s, Len(p) + 1, Len(s)), p)
    ELSE <<Head(s)>> \o Replace(Tail(s), p)

\* s[1:]
StripFirst(s) == IF s = <<>> THEN <<>> ELSE Tail(s)

\* string order (list.sort on the file names)
RECURSIVE StrLess(_, _)
StrLess(a, b) ==
    IF b = <<>> THEN FALSE
    ELSE IF a = <<>> THEN TRUE
    ELSE IF Head(a) = Head(b) THEN StrLess(Tail(a), Tail(b))
    ELSE TokOrd[Head(a)] < TokOrd[Head(b)]


-----------------------------------------------------------------------------
(* Collaborators: platform, the authenticated-encryption primitive, the    *)
(* keystore session                                                        *)

\* "no string": the None a screen returns where a string is expected
NoStr == <<"None">>

\* mount state: m is the mount flag, bad records an unmatched mount or unmount
\* platform.mount_sdcard()
mount_sdcard(ms) == [m |-> TRUE, bad |-> ms.bad \/ ms.m]

\* platform.unmount_sdcard()
unmount_sdcard(ms) == [m |-> FALSE, bad |-> ms.bad \/ ~ms.m]

\* platform.file_exists on a root directory: the flash directory always exists,
\* the SD directory is there while a card is in the slot and mounted
dir_exists(p, present, ms) == p = flashpath \/ (present /\ ms.m)

\* platform.file_exists on a file of a root
file_exists(fs, p, f, present, ms) ==
    f \in DOMAIN fs[p] /\ dir_exists(p, present, ms)

\* os.ilistdir(path): the names of the directory's entries
ilistdir(fs, p) == DOMAIN fs[p]

\* mnemonic.encode() and data.decode()
encode(m) == <<"utf8", m>>

decode(b) == b[2]

\* the blob save_aead writes: ciphertext of pt under key k with a valid tag
Encrypt(pt, k) == [ct |-> pt, key |-> k, tag |-> "ok"]

\* a blob after a medium fault
Corrupt(blob) == [blob EXCEPT !.tag = "bad"]

\* load_aead authenticates the blob under key k
Authentic(blob, k) == blob.key = k /\ blob.tag = "ok"

\* save_aead(path, plaintext, key): the file system after the write
save_aead(fs, p, f, pt, k) ==
    [fs EXCEPT ![p] = [n \in DOMAIN fs[p] \cup {f} |->
                          IF n = f THEN Encrypt(pt, k) ELSE fs[p][n]]]

\* os.remove(path/file) when it succeeds
remove(fs, p, f) == [fs EXCEPT ![p] = [n \in DOMAIN fs[p] \ {f} |-> fs[p][n]]]

\* hexlify(tagged_hash("sdid", secret)[:4]).decode()
hexid(s) == IF s = secret THEN "12ab" ELSE "34cd"

-----------------------------------------------------------------------------
(* SDKeyStore *)

\* `path is self.flashpath` and `displayname is ""` compare by identity; the
\* interpreter interns these strings, so they are modelled as equality.
\* The method on any keystore object: self holds the fields of the object
\* (secret, mnemonic) and fs is the content of the media at the call.
SDKeyStore_fileprefix_hashed(self, p, fs) == <<"specterdiy", hexid(self.secret)>>

SDKeyStore_fileprefix(self, p, fs) ==
    IF p = flashpath THEN <<"reckless">> ELSE <<"specterdiy", hexid(self.secret)>>

\* self.fileprefix(path) on the keystore of this device
fileprefix(p) ==
    SDKeyStore_fileprefix([secret |-> secret, mnemonic |-> None], p, <<>>)

\* the file name "%s.%s" % (fileprefix(path), filename)
RecordName(p, n) == fileprefix(p) \o <<".">> \o n

\* get_keypath up to its menu: the enable flags and the mount state it leaves
get_keypath(only_if_exist, present, ms) ==
    LET enable_flash == (~only_if_exist) \/ dir_exists(flashpath, present, ms)
        ms1 == mount_sdcard(ms)
        enable_sd == (~only_if_exist) \/ dir_exists(sdpath, present, ms1)
    IN  IF present
        THEN [enable |-> [flash |-> enable_flash, sd |-> enable_sd],
              ms |-> unmount_sdcard(ms1)]
        ELSE [enable |-> [flash |-> enable_flash, sd |-> FALSE], ms |-> ms]

\* the property is_key_saved: its value and the mount state it leaves
is_key_saved(present, ms) ==
    LET flash_exists == dir_exists(flashpath, present, ms)
        ms1 == mount_sdcard(ms)
        sd_exists == dir_exists(sdpath, present, ms1)
    IN  IF ~present THEN [value |-> flash_exists, ms |-> ms]
        ELSE [value |-> sd_exists \/ flash_exists, ms |-> unmount_sdcard(ms1)]

\* select_file: the display name of a matching file
displayname(f, prefix) ==
    LET d == Replace(f, prefix)
    IN  IF d = <<>> THEN <<"Default">> ELSE StripFirst(d)

\* select_file: the matching entries
matching(fs, p, prefix) == {f \in ilistdir(fs, p) : StartsWith(f, prefix)}

\* files.sort()
RECURSIVE SortNames(_)
SortNames(S) ==
    IF S = {} THEN <<>>
    ELSE LET least == CHOOSE x \in S : \A y \in S \ {x} : StrLess(x, y)
         IN  <<least>> \o SortNames(S \ {least})

\* select_file up to its menu: the buttons, in order
select_file(fs, p, prefix) ==
    LET names == SortNames(matching(fs, p, prefix))
    IN  [i \in 1..Len(names) |-> <<names[i], displayname(names[i], prefix)>>]

-----------------------------------------------------------------------------
(* The coroutine's state as a record, and the ways a step ends *)

NoRet == [op |-> "none", root |-> None, name |-> <<"None">>, out |-> "-"]

NoEnable == [flash |-> FALSE, sd |-> FALSE]

Cur == [pc |-> pc, op |-> op, filename |-> filename, path |-> path,
        enable |-> enable, buttons |-> buttons, alert |-> alert,
        error |-> error, ret |-> ret, files |-> files,
        ms |-> [m |-> mounted, bad |-> mountViolation],
        mnemonic |-> mnemonic]

\* a step of the coroutine starts: no record operation has ended in it yet
Begin(s) == [s EXCEPT !.ret = NoRet]

\* the locals of the record operation go out of scope
Forget(s) == [s EXCEPT !.op = "none", !.filename = NoStr, !.path = None,
                       !.enable = NoEnable, !.buttons = <<>>]

\* the success Alert storage_menu shows after each operation
SuccessAlert(o) ==
    CASE o = "save" -> "stored" [] o = "load" -> "loaded" [] o = "delete" -> "deleted"

\* storage_menu after the record operation returned `out`: a success Alert
\* when it is true, the top of the loop otherwise
Return(s, out) ==
    Forget([s EXCEPT !.ret = [op |-> s.op, root |-> s.path,
                              name |-> s.filename, out |-> out],
                     !.pc = IF out = "True" THEN "Alert" ELSE "Idle",
                     !.alert = IF out = "True" THEN SuccessAlert(s.op) ELSE None])

\* the record operation raises: storage_menu has no handler, the exception
\* leaves it
Raise(s, e) ==
    Forget([s EXCEPT !.ret = [op |-> s.op, root |-> s.path,
                              name |-> s.filename, out |-> "Raise"],
                     !.pc = "Raised", !.error = e])

\* a head of the record operations that mounts without the presence check
enter_root_unchecked(s) ==
    IF s.path # sdpath THEN [ok |-> TRUE, s |-> s]
    ELSE [ok |-> TRUE, s |-> [s EXCEPT !.ms = mount_sdcard(s.ms)]]

\* `if path == self.sdpath:` presence check and mount, at the head of the
\* three record operations
enter_root(s) ==
    IF s.path # sdpath THEN [ok |-> TRUE, s |-> s]
    ELSE IF ~sd_present THEN [ok |-> FALSE, s |-> s]
    ELSE [ok |-> TRUE, s |-> [s EXCEPT !.ms = mount_sdcard(s.ms)]]

\* the unmount that ends an operation on the SD root
leave_root(s) ==
    IF s.path = sdpath THEN [s EXCEPT !.ms = unmount_sdcard(s.ms)] ELSE s

\* the record operation shows the media menu of get_keypath
show_keypath(s, only_if_exist) ==
    LET g == get_keypath(only_if_exist, sd_present, s.ms)
    IN  [s EXCEPT !.pc = "MediaSelect", !.enable = g.enable, !.ms = g.ms]

\* a load_mnemonic that forgets set_mnemonic
load_tail_unset(s, f) ==
    IF ~file_exists(s.files, s.path, f, sd_present, s.ms)
    THEN Raise(s, "RecordNotFound")
    ELSE IF ~Authentic(s.files[s.path][f], enc_secret)
    THEN Raise(s, "RecordCorrupt")
    ELSE Return(leave_root(s), "True")

\* a load_mnemonic that takes the plaintext without authenticating the blob
load_tail_unauthenticated(s, f) ==
    IF ~file_exists(s.files, s.path, f, sd_present, s.ms)
    THEN Raise(s, "RecordNotFound")
    ELSE Return([leave_root(s) EXCEPT
                    !.mnemonic = decode(s.files[s.path][f].ct)], "True")

\* load_mnemonic from `print("loading " + file)` on
load_tail(s, f) ==
    IF ~file_exists(s.files, s.path, f, sd_present, s.ms)
    THEN Raise(s, "RecordNotFound")
    ELSE IF ~Authentic(s.files[s.path][f], enc_secret)
    THEN Raise(s, "RecordCorrupt")
    ELSE Return([leave_root(s) EXCEPT
                    !.mnemonic = decode(s.files[s.path][f].ct)], "True")

\* load_mnemonic(path, file) with both arguments given: the read-back
load_given(s, f) ==
    IF locked THEN Raise(s, "KeystoreLocked")
    ELSE LET e == enter_root(s)
         IN  IF ~e.ok THEN Raise(e.s, "MediaUnavailable") ELSE load_tail(e.s, f)

\* a save_mnemonic that returns True without its read-back
save_verify_skipped(s) == Return(s, "True")

\* save_mnemonic, `# check it's ok`: the read-back of the written file, after
\* which save_mnemonic returns True
save_verify(s) == load_given(s, RecordName(s.path, s.filename))

\* save_mnemonic from save_aead to the unmount; the read-back comes next.
\* A write to a card that was pulled during the Prompt fails in save_aead.
save_write(s) ==
    IF s.path = sdpath /\ ~sd_present THEN Raise(s, "IOError")
    ELSE [leave_root(s) EXCEPT
            !.files = save_aead(s.files, s.path, RecordName(s.path, s.filename),
                                encode(s.mnemonic), enc_secret),
            !.pc = "Verify"]

\* the overwrite Prompt is shown exactly when the target exists
needs_prompt(s) ==
    file_exists(s.files, s.path, RecordName(s.path, s.filename), sd_present, s.ms)

\* save_mnemonic after the media choice
save_chosen(s) ==
    LET e == enter_root(s)
    IN  IF ~e.ok THEN Raise(e.s, "MediaUnavailable")
        ELSE IF needs_prompt(e.s) THEN [e.s EXCEPT !.pc = "OverwriteConfirm"]
        ELSE save_write(e.s)

\* a save_mnemonic that writes whatever the Prompt answered
save_prompted_unguarded(s, res) == save_write(s)

\* save_mnemonic after the overwrite Prompt
save_prompted(s, res) ==
    IF res = FALSE
    THEN Return(s, "None")
    ELSE save_write(s)

\* load_mnemonic and delete_mnemonic after the media choice, up to the file menu
list_chosen(s) ==
    LET e == enter_root(s)
        b == select_file(e.s.files, e.s.path, fileprefix(e.s.path))
    IN  IF ~e.ok THEN Raise(e.s, "MediaUnavailable")
        ELSE IF Len(b) = 0 THEN Raise(e.s, "NoMatchingFiles")
        ELSE [e.s EXCEPT !.pc = "FileSelect", !.buttons = b]

\* delete_mnemonic after the file choice; `removes` is whether os.remove
\* succeeds.  The return in the finally clause discards the exception.
\* a delete_mnemonic that clears the whole root
delete_tail_all(s, f, removes) ==
    IF ~file_exists(s.files, s.path, f, sd_present, s.ms)
    THEN Raise(s, "RecordNotFound")
    ELSE Return(leave_root([s EXCEPT
                    !.files = [s.files EXCEPT ![s.path] =
                                  [n \in {} |-> s.files[s.path][n]]]]), "True")

delete_tail(s, f, removes) ==
    IF ~file_exists(s.files, s.path, f, sd_present, s.ms)
    THEN Raise(s, "RecordNotFound")
    ELSE Return(leave_root([s EXCEPT
                    !.files = IF removes THEN remove(s.files, s.path, f)
                              ELSE s.files]), "True")

\* load_mnemonic and delete_mnemonic after the file menu
file_chosen(s, f, removes) ==
    IF f = NoStr THEN Return(s, "False")
    ELSE IF s.op = "load" THEN load_tail(s, f)
    ELSE delete_tail(s, f, removes)

\* the three record operations after the media menu
media_chosen(s, c) ==
    IF c = None THEN Return(s, "False")
    ELSE IF s.op = "save" THEN save_chosen([s EXCEPT !.path = c])
    ELSE list_chosen([s EXCEPT !.path = c])

\* a test of the name that no entered name passes
is_empty_name_never(n) == n # n

\* `filename is ""`
is_empty_name(n) == n = <<>>

\* storage_menu, menuitem 0, after get_input
name_entered(s, n) ==
    IF n = NoStr THEN [s EXCEPT !.pc = "Exit"]
    ELSE IF is_empty_name(n) THEN [s EXCEPT !.pc = "Alert", !.alert = "invalid_name"]
    ELSE LET t == [s EXCEPT !.op = "save", !.filename = n]
         IN  IF locked THEN Raise(t, "KeystoreLocked")
             ELSE IF t.mnemonic = None THEN Raise(t, "NotLoaded")
             ELSE show_keypath(t, FALSE)

\* storage_menu, menuitem 1: load_mnemonic up to the media menu
load_started(s) ==
    LET t == [s EXCEPT !.op = "load"]
    IN  IF locked THEN Raise(t, "KeystoreLocked") ELSE show_keypath(t, TRUE)

\* storage_menu, menuitem 2: delete_mnemonic up to the media menu
delete_started(s) == show_keypath([s EXCEPT !.op = "delete"], TRUE)

\* storage_menu after an Alert is dismissed: the invalid-name branch returns,
\* the success branches fall through to the top of the loop
alert_dismissed(s) ==
    [s EXCEPT !.pc = IF s.alert = "invalid_name" THEN "Exit" ELSE "Idle",
              !.alert = None]

\* the step is taken: the record becomes the next state, and the answer that
\* started the step is kept
Commit(s, answer) ==
    /\ input' = [screen |-> pc, value |-> answer]
    /\ pc' = s.pc /\ op' = s.op /\ filename' = s.filename /\ path' = s.path
    /\ enable' = s.enable /\ buttons' = s.buttons /\ alert' = s.alert
    /\ error' = s.error /\ ret' = s.ret /\ files' = s.files
    /\ mounted' = s.ms.m /\ mountViolation' = s.ms.bad
    /\ mnemonic' = s.mnemonic
    /\ UNCHANGED <<sd_present, locked, key_saved, prefix_calls>>

-----------------------------------------------------------------------------
(* Initial states *)

\* at most this many blobs are damaged on the media at a time
MaxFaults == 1

\* a record of this device and a record of another device on a shared card
OwnSdFile == <<"specterdiy", hexid(secret), ".", "a">>

ForeignSdFile == <<"specterdiy", hexid(otherSecret), ".", "a">>

FlashFile == <<"reckless", ".", "a">>

NoFiles == [n \in {} |-> Encrypt(encode("m1"), enc_secret)]

InitFlash ==
    { NoFiles,
      [n \in {FlashFile} |-> Encrypt(encode("m1"), enc_secret)] }

InitSd ==
    { [n \in {ForeignSdFile} |-> Encrypt(encode("m2"), otherKey)],
      [n \in {ForeignSdFile, OwnSdFile} |->
          IF n = OwnSdFile THEN Encrypt(encode("m2"), enc_secret)
          ELSE Encrypt(encode("m2"), otherKey)] }

Init ==
    /\ pc = "Idle" /\ op = "none" /\ filename = NoStr /\ path = None
    /\ enable = NoEnable /\ buttons = <<>> /\ alert = None /\ error = None
    /\ ret = NoRet /\ input = [screen |-> "none", value |-> <<>>]
    /\ files \in [Roots -> InitFlash \cup InitSd]
    /\ files[flashpath] \in InitFlash /\ files[sdpath] \in InitSd
    /\ sd_present \in BOOLEAN
    /\ mounted = FALSE /\ mountViolation = FALSE
    /\ locked \in BOOLEAN
    /\ mnemonic \in (IF locked THEN {None} ELSE {None, "m1"})
    /\ key_saved = None
    /\ prefix_calls = <<>>

-----------------------------------------------------------------------------
(* storage_menu: one action per answer of the user *)

\* menuitem 255
MenuBack == pc = "Idle" /\ Commit([Begin(Cur) EXCEPT !.pc = "Exit"], <<"back">>)

\* menuitem 0, up to get_input
MenuSave == pc = "Idle" /\ Commit([Begin(Cur) EXCEPT !.pc = "NameInput"], <<"save">>)

\* menuitem 1
MenuLoad == pc = "Idle" /\ Commit(load_started(Begin(Cur)), <<"load">>)

\* menuitem 2
MenuDelete == pc = "Idle" /\ Commit(delete_started(Begin(Cur)), <<"delete">>)

\* menuitem 3: show_mnemonic
MenuShow == pc = "Idle" /\ Commit([Begin(Cur) EXCEPT !.pc = "ShowPhrase"], <<"show">>)

PhraseDismissed ==
    pc = "ShowPhrase" /\ Commit([Begin(Cur) EXCEPT !.pc = "Idle"], <<"ok">>)

NameEntered ==
    /\ pc = "NameInput"
    /\ \E n \in Names \cup {NoStr} : Commit(name_entered(Begin(Cur), n), n)

MediaChosen ==
    /\ pc = "MediaSelect"
    /\ \E c \in {None} \cup {r \in Roots : enable[r]} :
          Commit(media_chosen(Begin(Cur), c), <<c>>)

PromptAnswered ==
    /\ pc = "OverwriteConfirm"
    /\ \E res \in BOOLEAN : Commit(save_prompted(Begin(Cur), res), IF res THEN <<"yes">> ELSE <<"no">>)

\* save_mnemonic after the write: the read-back and `return True`
SaveVerify ==
    /\ pc = "Verify"
    /\ Commit(save_verify(Begin(Cur)), <<>>)

FileChosen ==
    /\ pc = "FileSelect"
    /\ \E f \in {buttons[i][1] : i \in 1..Len(buttons)} \cup {NoStr} :
       \E removes \in BOOLEAN :
          Commit(file_chosen(Begin(Cur), f, removes), f)

AlertDismissed == pc = "Alert" /\ Commit(alert_dismissed(Begin(Cur)), <<"ok">>)

\* the owner of the keystore reads is_key_saved once storage_menu has returned
IsKeySaved ==
    /\ pc = "Exit"
    /\ LET q == is_key_saved(sd_present, [m |-> mounted, bad |-> mountViolation])
       IN  /\ key_saved' = (IF q.value THEN "True" ELSE "False")
           /\ mounted' = q.ms.m /\ mountViolation' = q.ms.bad
    /\ UNCHANGED <<pc, op, filename, path, enable, buttons, alert, error, ret,
                   input, files, sd_present, locked, mnemonic, prefix_calls>>

-----------------------------------------------------------------------------
(* The environment *)

Running == pc \notin {"Exit", "Raised"}

ProgramVars == <<pc, op, filename, path, enable, buttons, alert, error, ret,
                 input, mounted, mountViolation, locked, mnemonic, key_saved,
                 prefix_calls>>

\* the user pulls the card out of the slot
CardRemoved ==
    /\ Running /\ sd_present /\ sd_present' = FALSE
    /\ UNCHANGED <<ProgramVars, files>>

\* the user puts the card back
CardInserted ==
    /\ Running /\ ~sd_present /\ sd_present' = TRUE
    /\ UNCHANGED <<ProgramVars, files>>

Damaged == {x \in {<<r, n>> : r \in Roots, n \in UNION {DOMAIN files[q] : q \in Roots}} :
               x[2] \in DOMAIN files[x[1]] /\ files[x[1]][x[2]].tag = "bad"}

\* a stored record of this device is damaged on its medium (damage to other
\* files is invisible to the keystore, which never opens them)
MediumFault ==
    /\ Running /\ Cardinality(Damaged) < MaxFaults
    /\ \E r \in Roots : \E n \in DOMAIN files[r] :
          /\ StartsWith(n, fileprefix(r))
          /\ files[r][n].tag = "ok"
          /\ files' = [files EXCEPT ![r][n] = Corrupt(files[r][n])]
    /\ UNCHANGED <<ProgramVars, sd_present>>

Next ==
    \/ MenuBack \/ MenuSave \/ MenuLoad \/ MenuDelete \/ MenuShow
    \/ PhraseDismissed \/ NameEntered \/ MediaChosen \/ PromptAnswered
    \/ SaveVerify \/ FileChosen \/ AlertDismissed \/ IsKeySaved
    \/ CardRemoved \/ CardInserted \/ MediumFault

Spec == Init /\ [][Next]_vars

-----------------------------------------------------------------------------
(* fileprefix as a function: calls on keystores holding any secret and any
   mnemonic, over any content of the media *)

\* at most this many calls are compared
MaxCalls == 2

FilePrefixCalled ==
    /\ Len(prefix_calls) < MaxCalls
    /\ \E sec \in Secrets, m \in Mnemonics \cup {None}, p \in Roots,
          sd \in InitSd :
          LET self == [secret |-> sec, mnemonic |-> m]
              fs == [files EXCEPT ![sdpath] = sd]
          IN  prefix_calls' = Append(prefix_calls,
                  [self |-> self, path |-> p, fs |-> fs,
                   value |-> SDKeyStore_fileprefix(self, p, fs)])
    /\ UNCHANGED <<pc, op, filename, path, enable, buttons, alert, error, ret,
                   input, files, sd_present, mounted, mountViolation, locked,
                   mnemonic, key_saved>>

PrefixSpec == Init /\ [][FilePrefixCalled]_vars

-----------------------------------------------------------------------------
(* Properties *)

\* the user's answer that cancels the screen of the current step
Cancels(screen, value) ==
    \/ screen \in {"NameInput", "MediaSelect", "FileSelect"} /\ value = NoStr
    \/ screen = "OverwriteConfirm" /\ value = <<"no">>

\* C1: whenever save_mnemonic, load_mnemonic or delete_mnemonic ran against
\* the SD root and ended (True, False/None or an exception), the card is
\* unmounted; so it is unmounted at the main menu and after storage_menu
\* returned.
C1_UnmountedWhenOperationEnds ==
    /\ (ret.out # "-" /\ ret.root = sdpath) => ~mounted
    /\ pc \in {"Idle", "Exit"} => ~mounted

\* C2: the "Your key is deleted." Alert is shown only if the chosen file is
\* gone from the chosen root.
C2_DeleteReportsTrueOutcome ==
    (pc = "Alert" /\ alert = "deleted") =>
        input.value \notin DOMAIN files[ret.root]

\* C3: when the overwrite Prompt is not confirmed, save_mnemonic ends with a
\* cancel value, the files are as they were, and no success Alert is shown.
C3_DeclinedOverwriteTouchesNothing ==
    [][(pc = "OverwriteConfirm" /\ pc' # pc /\ input'.value = <<"no">>) =>
          /\ files' = files
          /\ ret'.op = "save" /\ ret'.out \in {"False", "None"}
          /\ pc' = "Idle" /\ alert' = None]_vars

C3_Witness ==
    /\ input = [screen |-> "OverwriteConfirm", value |-> <<"no">>]
    /\ pc = "Idle" /\ ret.op = "save" /\ ret.out = "None"
    /\ RecordName(ret.root, ret.name) \in DOMAIN files[ret.root]

\* C4: when save_mnemonic returns True, the file <root>/<prefix>.<name> holds
\* the encryption of the mnemonic under the key of the device and the mnemonic
\* in memory is still that mnemonic; and a load_mnemonic of a file that holds
\* the encryption of P under that key sets the mnemonic in memory to P.
C4_SaveLoadRoundTrip ==
    [][/\ (pc = "Verify" /\ pc' = "Alert") =>
              LET f == fileprefix(path) \o <<".">> \o filename
              IN  /\ alert' = "stored" /\ ret'.out = "True"
                  /\ f \in DOMAIN files'[path]
                  /\ files'[path][f] = Encrypt(encode(mnemonic), enc_secret)
                  /\ mnemonic' = mnemonic
       /\ (pc = "FileSelect" /\ pc' = "Alert" /\ alert' = "loaded") =>
              \A P \in Mnemonics :
                  files[path][input'.value] = Encrypt(encode(P), enc_secret)
                      => mnemonic' = P]_vars

C4_Witness ==
    /\ pc = "Alert" /\ alert = "stored" /\ ret.root = sdpath
    /\ ret.name = <<"a">> /\ mnemonic = "m1"
    /\ files[sdpath][OwnSdFile] = Encrypt(encode("m1"), enc_secret)

\* the read-back of <root>/<prefix>.<name> would succeed in this state
ReadBackSucceeds(p, n) ==
    LET f == fileprefix(p) \o <<".">> \o n
    IN  /\ ~locked
        /\ p = sdpath => sd_present
        /\ f \in DOMAIN files[p]
        /\ Authentic(files[p][f], enc_secret)

\* C5: the "Your key is stored now." Alert appears only in the step that read
\* the written file back and decrypted it; when the read-back fails, the save
\* ends with an error.
C5_SuccessOnlyAfterReadBack ==
    [][/\ (pc' = "Alert" /\ alert' = "stored" /\ pc' # pc) =>
              (pc = "Verify" /\ ReadBackSucceeds(path, filename))
       /\ (pc = "Verify" /\ pc' # pc /\ ~ReadBackSucceeds(path, filename)) =>
              (pc' = "Raised" /\ ret'.op = "save" /\ ret'.out = "Raise")]_vars

C5_Witness ==
    /\ pc = "Raised" /\ input.screen = "Verify"
    /\ ret.op = "save" /\ error = "RecordCorrupt"

\* C6: a load_mnemonic whose file is missing fails with RecordNotFound, one
\* whose blob does not authenticate fails with RecordCorrupt; in both cases,
\* and when the media or file menu is cancelled, the mnemonic in memory is
\* kept and load_mnemonic does not return True.
C6_LoadFailsClosed ==
    [][(op = "load" /\ pc' # pc /\ pc \in {"MediaSelect", "FileSelect"}) =>
          LET f == input'.value
              exists == f \in DOMAIN files[path]
                          /\ (path = sdpath => sd_present)
          IN  /\ f = NoStr =>
                    (mnemonic' = mnemonic /\ ret'.out = "False" /\ pc' = "Idle")
              /\ (pc = "FileSelect" /\ f # NoStr /\ ~exists) =>
                    /\ mnemonic' = mnemonic
                    /\ pc' = "Raised" /\ error' = "RecordNotFound"
              /\ (pc = "FileSelect" /\ f # NoStr /\ exists
                    /\ ~Authentic(files[path][f], enc_secret)) =>
                    /\ mnemonic' = mnemonic
                    /\ pc' = "Raised" /\ error' = "RecordCorrupt"]_vars

C6_Witness ==
    /\ pc = "Raised" /\ input.screen = "FileSelect"
    /\ ret.op = "load" /\ error = "RecordCorrupt"
    /\ mnemonic = "m1"

\* C7: no error of a Save, Load or Delete leaves storage_menu.
C7_ErrorsCaughtInStorageMenu == pc # "Raised"

\* C8: a cancelled name entry, media choice, file choice or overwrite Prompt
\* leads to the main menu, storage_menu does not return, and neither the files
\* nor the mnemonic change.
C8_CancelReturnsToIdle ==
    [][(pc' # pc /\ Cancels(pc, input'.value)) =>
          /\ pc' = "Idle"
          /\ files' = files /\ mnemonic' = mnemonic]_vars

\* C9: after every Alert the main menu is shown again, and storage_menu
\* returns only when Back is chosen at the main menu.
C9_ReportReturnsToIdle ==
    [][/\ (pc = "Alert" /\ pc' # pc) => pc' = "Idle"
       /\ (pc' = "Exit" /\ pc # "Exit") =>
              (pc = "Idle" /\ input'.value = <<"back">>)]_vars

\* C10: an empty name in the Save branch shows the invalid-name Alert; no
\* record operation starts, nothing is mounted and no file changes.
C10_EmptyNameRejected ==
    [][(pc = "NameInput" /\ pc' # pc /\ input'.value = <<>>) =>
          /\ pc' = "Alert" /\ alert' = "invalid_name"
          /\ op' = "none" /\ ret' = NoRet /\ path' = None
          /\ files' = files
          /\ mounted' = mounted /\ mountViolation' = mountViolation]_vars

C10_Witness ==
    /\ pc = "Alert" /\ alert = "invalid_name"
    /\ input = [screen |-> "NameInput", value |-> <<>>]

\* C11: when the SD root is the target of a record operation and no card is
\* in the slot at that moment, the operation raises 'SD card is not present'
\* with the mount state as it was (no mount, no unmount) and the files and the
\* mnemonic untouched.  This covers the three operations after the media menu
\* and the read-back of save_mnemonic.
C11_AbsentCardFailsBeforeMount ==
    [][(/\ pc' # pc /\ ~sd_present
        /\ \/ pc = "MediaSelect" /\ input'.value = <<sdpath>>
           \/ pc = "Verify" /\ path = sdpath) =>
          /\ pc' = "Raised" /\ error' = "MediaUnavailable"
          /\ ret'.out = "Raise" /\ ret'.root = sdpath
          /\ mounted' = mounted /\ mountViolation' = mountViolation
          /\ files' = files /\ mnemonic' = mnemonic]_vars

C11_Witness ==
    /\ pc = "Raised" /\ error = "MediaUnavailable"
    /\ input = [screen |-> "MediaSelect", value |-> <<sdpath>>]
    /\ ret.op = "delete" /\ ret.root = sdpath /\ ~sd_present /\ ~mounted

\* some file is stored on the root (whatever its prefix)
HoldsRecord(fs, r) == DOMAIN fs[r] # {}

\* C12: in the media menu of get_keypath the flash root is enabled exactly
\* when only_if_exist is false or a record exists on flash, and the SD root
\* exactly when a card is in the slot and (only_if_exist is false or a record
\* exists on the card); only_if_exist is true in the Load and Delete flows.
C12_EnabledRootsHoldRecords ==
    [][(pc' = "MediaSelect" /\ pc # "MediaSelect") =>
          LET only_if_exist == op' \in {"load", "delete"}
          IN  /\ enable'.flash <=>
                    (~only_if_exist \/ HoldsRecord(files, flashpath))
              /\ enable'.sd <=>
                    (sd_present /\ (~only_if_exist \/ HoldsRecord(files, sdpath)))]_vars

\* the name without its leading prefix and one separator character, or
\* "Default" when nothing follows the prefix
LabelOf(f, prefix) ==
    LET rest == SubSeq(f, Len(prefix) + 1, Len(f))
    IN  IF rest = <<>> THEN <<"Default">> ELSE Tail(rest)

\* C13: select_file(path, prefix) raises 'No matching files found' when no
\* entry of path starts with prefix; otherwise it offers exactly the entries
\* that start with prefix, in ascending order of their names, each labelled
\* with the rest of its name after the leading prefix and one separator, or
\* 'Default' when there is no rest.
C13_SelectFileListsRecords ==
    [][(/\ pc = "MediaSelect" /\ pc' # pc /\ op \in {"load", "delete"}
        /\ input'.value # NoStr
        /\ input'.value = <<sdpath>> => sd_present) =>
          LET root == input'.value[1]
              prefix == fileprefix(root)
              M == {f \in DOMAIN files[root] : StartsWith(f, prefix)}
              b == buttons'
          IN  IF M = {}
              THEN pc' = "Raised" /\ error' = "NoMatchingFiles"
              ELSE /\ pc' = "FileSelect"
                   /\ Len(b) = Cardinality(M)
                   /\ {b[i][1] : i \in 1..Len(b)} = M
                   /\ \A i, j \in 1..Len(b) : i < j => StrLess(b[i][1], b[j][1])
                   /\ \A i \in 1..Len(b) : b[i][2] = LabelOf(b[i][1], prefix)]_vars

\* C14: on a locked keystore save_mnemonic, load_mnemonic and delete_mnemonic
\* each raise 'Keystore is locked' at once: no menu or Prompt of the operation
\* is shown, the card is not mounted and no file changes.
C14_LockedKeystoreRefuses ==
    [][(/\ locked /\ pc' # pc
        /\ \/ pc = "Idle" /\ input'.value \in {<<"load">>, <<"delete">>}
           \/ pc = "NameInput" /\ input'.value \in Names \ {<<>>}) =>
          /\ pc' = "Raised" /\ error' = "KeystoreLocked"
          /\ mounted' = mounted /\ mountViolation' = mountViolation
          /\ files' = files]_vars

\* C15: the enable computation of get_keypath and the property is_key_saved
\* leave the SD mount state as they found it and change no file.
C15_QueriesLeaveNoTrace ==
    [][(\/ pc' = "MediaSelect" /\ pc # "MediaSelect"
        \/ pc = "Exit") =>
          (mounted' = mounted /\ files' = files)]_vars

\* C16: when the file chosen in delete_mnemonic is no longer there at the
\* removal, delete_mnemonic raises 'File not found.', removes nothing and
\* leaves the card unmounted, as it was before delete_mnemonic was called.
C16_DeleteOfMissingFile ==
    [][(/\ pc = "FileSelect" /\ op = "delete" /\ pc' # pc
        /\ input'.value # NoStr
        /\ ~(/\ input'.value \in DOMAIN files[path]
             /\ path = sdpath => sd_present)) =>
          /\ pc' = "Raised" /\ error' = "RecordNotFound"
          /\ files' = files
          /\ ~mounted']_vars

\* C17: fileprefix depends only on the root and the secret: 'reckless' on
\* the internal root whatever the secret, 'specterdiy' followed by the hex
\* of the truncated tagged hash of the secret on the SD root; equal for
\* calls with the same root and secret, different for two secrets whose
\* truncated hashes differ, whatever the mnemonic and the files present.
C17_PrefixDependsOnRootAndSecret ==
    /\ \A i \in DOMAIN prefix_calls :
          LET c == prefix_calls[i]
          IN  /\ c.path = flashpath => c.value = <<"reckless">>
              /\ c.path = sdpath => c.value = <<"specterdiy", hexid(c.self.secret)>>
    /\ \A i, j \in DOMAIN prefix_calls :
          LET c == prefix_calls[i]
              d == prefix_calls[j]
          IN  /\ (c.path = d.path /\ c.self.secret = d.self.secret) =>
                    c.value = d.value
              /\ (/\ c.path = sdpath /\ d.path = sdpath
                  /\ hexid(c.self.secret) # hexid(d.self.secret)) =>
                    c.value # d.value

\* two calls on the SD root with the same secret, a different mnemonic and
\* different files on the card
C17_Witness ==
    /\ Len(prefix_calls) = 2
    /\ prefix_calls[1].path = sdpath /\ prefix_calls[2].path = sdpath
    /\ prefix_calls[1].self.secret = prefix_calls[2].self.secret
    /\ prefix_calls[1].self.mnemonic # prefix_calls[2].self.mnemonic
    /\ prefix_calls[1].fs # prefix_calls[2].fs

\* C18: over any sequence of choices in storage_menu, mount_sdcard and
\* unmount_sdcard alternate, starting with mount: the card is never mounted
\* while mounted and never unmounted while unmounted.
C18_MountsAlternate == pc # "Exit" => ~mountViolation

\* the files, on both roots, that differ between two contents of the media
Changed(fs, gs) ==
    {x \in {<<r, n>> : r \in Roots,
                       n \in UNION {DOMAIN fs[q] \cup DOMAIN gs[q] : q \in Roots}} :
        LET r == x[1]
            n == x[2]
        IN  \/ (n \in DOMAIN fs[r]) # (n \in DOMAIN gs[r])
            \/ n \in DOMAIN fs[r] /\ n \in DOMAIN gs[r] /\ fs[r][n] # gs[r][n]}

\* C19: a step of a storage operation touches at most one file, one that
\* carries this device's prefix for the chosen root: delete_mnemonic removes
\* at most the file the user selected, save_mnemonic creates or replaces
\* only <root>/<fileprefix(root)>.<label>, load_mnemonic changes no file;
\* every other file on both roots is unchanged.
C19_OneOwnFileTouched ==
    [][ProgramVars' # ProgramVars =>
          LET ch == Changed(files, files')
          IN  /\ Cardinality(ch) <= 1
              /\ \A x \in ch : StartsWith(x[2], fileprefix(x[1]))
              /\ ch # {} =>
                    \/ /\ op = "delete" /\ pc = "FileSelect"
                       /\ ch = {<<path, input'.value>>}
                       /\ input'.value \notin DOMAIN files'[path]
                    \/ /\ op = "save" /\ pc' = "Verify"
                       /\ ch = {<<path', RecordName(path', filename)>>}]_vars

\* a record of this device was deleted from a card shared with another
\* device, whose record is still there
C19_Witness ==
    /\ ret.op = "delete" /\ ret.out = "True" /\ ret.root = sdpath
    /\ ret.name \notin DOMAIN files[sdpath]
    /\ ForeignSdFile \in DOMAIN files[sdpath]

\* C20: a record saved under a non-empty name L on a root is listed by the
\* following select_file on that root as the file <prefix>.L with the label
\* L, for every L, also one that contains the prefix.
C20_SavedNameIsListed ==
    [][(pc = "MediaSelect" /\ pc' = "FileSelect") =>
          \A L \in Names \ {<<>>} :
              RecordName(path', L) \in DOMAIN files'[path'] =>
                  \E i \in 1..Len(buttons') :
                      buttons'[i] = <<RecordName(path', L), L>>]_vars

=============================================================================
